---- MODULE Spec2Model ----
(***************************************************************************)
(* A model of ringo/httpserver (src/modules/ringo/httpserver.js): the      *)
(* Server's context registry (getContext), the Server and daemon life      *)
(* cycle (init/start/stop/destroy) and the WebSocket object handed to      *)
(* addWebSocket's onconnect callback.                                      *)
(*                                                                         *)
(* JavaScript values are tagged records, so that undefined, null, "",      *)
(* false and 0 stay distinct and the conversions the code applies          *)
(* (Boolean(x), String(x), parseInt(x, 10), x || y, x && y) are computed.  *)
(***************************************************************************)
EXTENDS Integers, Sequences, FiniteSets, TLC

(***************************************************************************)
(* Bounds of the model.                                                    *)
(***************************************************************************)
\* Server instances constructed over a run
MaxServers == 2
\* ServletContextHandler objects constructed over a run
MaxHandlers == 3
\* WebSocket connections accepted over a run
MaxSockets == 2
\* text messages received on one WebSocket connection
MaxMessages == 1
\* length of the byte arrays given to sendBinary
MaxBytes == 2

(***************************************************************************)
(* JavaScript values and conversions.                                      *)
(***************************************************************************)
JSUndef == [t |-> "undefined"]
JSNull == [t |-> "null"]
JSBool(b) == [t |-> "boolean", v |-> b]
JSStr(s) == [t |-> "string", v |-> s]
JSArr(a) == [t |-> "array", v |-> a]
JSNum(n) == [t |-> "number", v |-> n]
JSNaN == [t |-> "NaN"]
\* a string whose characters the code inspects, as the tuple of its characters
JSChars(cs) == [t |-> "chars", v |-> cs]

\* ToBoolean: what `if (x)`, `x ? a : b`, `x || y` and Boolean(x) test
Truthy(x) ==
    CASE x.t = "undefined" -> FALSE
      [] x.t = "null" -> FALSE
      [] x.t = "boolean" -> x.v
      [] x.t = "string" -> x.v # ""
      [] x.t = "array" -> TRUE
      [] x.t = "object" -> TRUE
      [] x.t = "number" -> x.v # 0
      [] x.t = "NaN" -> FALSE
      [] x.t = "chars" -> x.v # <<>>

RECURSIVE Join(_)
\* Array.prototype.join(","): what String(array) yields for an array of strings
Join(a) ==
    IF Len(a) = 0 THEN ""
    ELSE IF Len(a) = 1 THEN a[1]
    ELSE a[1] \o "," \o Join(Tail(a))

\* String(x) for the values a virtualHosts argument can take
StringOf(x) ==
    CASE x.t = "string" -> x.v
      [] x.t = "array" -> Join(x.v)
      [] x.t = "boolean" -> IF x.v THEN "true" ELSE "false"
      [] x.t = "undefined" -> "undefined"
      [] x.t = "null" -> "null"

\* x || y
Or(x, y) == IF Truthy(x) THEN x ELSE y

Digits == <<"0", "1", "2", "3", "4", "5", "6", "7", "8", "9">>

IsDigit(ch) == \E d \in 1..10 : Digits[d] = ch

DigitValue(ch) == (CHOOSE d \in 1..10 : Digits[d] = ch) - 1

RECURSIVE DigitsOf(_)
\* the decimal digits of a natural number
DigitsOf(n) == IF n < 10 THEN <<Digits[n + 1]>> ELSE DigitsOf(n \div 10) \o <<Digits[(n % 10) + 1]>>

\* String(x), character by character, for the values parseInt is given
CharsOf(x) ==
    CASE x.t = "chars" -> x.v
      [] x.t = "number" -> IF x.v < 0 THEN <<"-">> \o DigitsOf(-x.v) ELSE DigitsOf(x.v)
      [] x.t = "undefined" -> <<"u", "n", "d", "e", "f", "i", "n", "e", "d">>
      [] x.t = "NaN" -> <<"N", "a", "N">>

RECURSIVE LeadingValue(_, _)
\* the value of the digits cs starts with, after the digits worth acc
LeadingValue(cs, acc) ==
    IF cs = <<>> \/ ~IsDigit(cs[1]) THEN acc
    ELSE LeadingValue(Tail(cs), 10 * acc + DigitValue(cs[1]))

RECURSIVE SkipSpaces(_)
SkipSpaces(cs) == IF cs # <<>> /\ cs[1] = " " THEN SkipSpaces(Tail(cs)) ELSE cs

\* parseInt(x, 10): leading white space, an optional sign, then the digits
\* up to the first character that is none; NaN when there is no digit
ParseInt(x) ==
    LET cs == SkipSpaces(CharsOf(x))
        signed == cs # <<>> /\ cs[1] \in {"-", "+"}
        body == IF signed THEN Tail(cs) ELSE cs
    IN IF body = <<>> \/ ~IsDigit(body[1]) THEN JSNaN
       ELSE IF signed /\ cs[1] = "-" THEN JSNum(0 - LeadingValue(body, 0))
       ELSE JSNum(LeadingValue(body, 0))

(***************************************************************************)
(* Inputs the operations are called with.                                  *)
(***************************************************************************)
Paths == {"/a"}

VirtualHostValues ==
    {JSUndef, JSStr(""), JSStr("host1"), JSStr("host2"),
     JSArr(<<"host1", "host2">>)}

\* an options argument that was not passed
NoOptions == JSUndef

\* the `{}` of `options = options || {}`: every property reads as undefined
EmptyOptions ==
    [t |-> "object",
     sessions |-> JSUndef, security |-> JSUndef, cookieName |-> JSUndef,
     cookieDomain |-> JSUndef, cookiePath |-> JSUndef,
     httpOnlyCookies |-> JSUndef, secureCookies |-> JSUndef]

ContextOptionValues ==
    {NoOptions,
     [EmptyOptions EXCEPT !.sessions = JSBool(TRUE), !.security = JSBool(TRUE),
                          !.cookieName = JSStr("sid"),
                          !.httpOnlyCookies = JSBool(TRUE)]}

\* the options object of `new Server(options)` as far as the model reads it
EmptyServerOptions ==
    [t |-> "object", mountpoint |-> JSUndef, virtualHost |-> JSUndef, sessions |-> JSUndef,
     security |-> JSUndef, cookieName |-> JSUndef, cookieDomain |-> JSUndef,
     cookiePath |-> JSUndef, httpOnlyCookies |-> JSUndef,
     secureCookies |-> JSUndef, staticDir |-> JSUndef,
     staticMountpoint |-> JSUndef, port |-> JSUndef]

\* a Server with the default mount point and a static directory, and a
\* Server mounted at "/a" for one virtual host, without sessions
ServerOptionValues ==
    {[EmptyServerOptions EXCEPT !.staticDir = JSStr("static")],
     [EmptyServerOptions EXCEPT !.mountpoint = JSStr("/a"),
                                !.virtualHost = JSStr("host1"),
                                !.sessions = JSBool(FALSE)]}

\* the life cycle hooks the application module exports
AppHooks == {"init", "start", "stop", "destroy"}

(***************************************************************************)
(* State.                                                                  *)
(***************************************************************************)
VARIABLES
    options,    \* module variable `options` (line 12): JSUndef until init()
    server,     \* module variable `server` (line 13): 0 is undefined/null, else an instance
    started,    \* module variable `started` (line 14)
    servers,    \* the Server instances constructed so far, by instance number
    handlers,   \* the ServletContextHandler objects constructed so far, by number
    pc,         \* per thread: where its getContext call stands
    frame,      \* per thread: the arguments and locals of that call
    sockets,    \* the WebSocket objects built by doWebSocketConnect, by number
    op,         \* the operation called by the last step, with its arguments
    fx,         \* the calls that operation issued, in order
    err,        \* the exception that operation raised, or "none"
    ret         \* the value that operation returned

\* the threads' getContext calls in progress
mtVars == <<pc, frame>>

\* the daemon, its Server instances and their contexts
srvVars == <<options, server, started, servers, handlers>>

vars == <<options, server, started, servers, handlers, mtVars, sockets,
          op, fx, err, ret>>

\* the value of a variable holding undefined or null
Nil == 0

\* the threads that call getContext: request handling threads of the
\* transport's pool and threads of the application
Threads == {"t1", "t2"}

\* a thread that is in no getContext call
NoFrame == [s |-> Nil, path |-> "", virtualHosts |-> JSUndef, options |-> JSUndef,
            key |-> "", cx |-> Nil]

RetUndef == [t |-> "undefined"]
RetServer(s) == [t |-> "server", v |-> s]
RetContext(cx) == [t |-> "context", v |-> cx]
RetBool(b) == [t |-> "boolean", v |-> b]

(***************************************************************************)
(* Server: the context registry (lines 88-116).                            *)
(***************************************************************************)
\* contextMap = {} (lines 56, 305)
EmptyMap == [k \in {} |-> Nil]

\* contextMap[key] = cx (line 112)
Put(m, key, cx) == [k \in DOMAIN m \cup {key} |-> IF k = key THEN cx ELSE m[k]]

\* line 91 with the virtual hosts left out of the key
ContextKeyPathOnly(path, virtualHosts) == path

\* var contextKey = virtualHosts ? String(virtualHosts) + path : path (line 91)
ContextKey(path, virtualHosts) ==
    IF Truthy(virtualHosts) THEN StringOf(virtualHosts) \o path ELSE path

\* line 92 with the lookup never finding the key
LookupMiss(m, key) == Nil

\* var cx = contextMap[contextKey] (line 92): Nil when the key is absent
Lookup(m, key) == IF key \in DOMAIN m THEN m[key] ELSE Nil

\* options = options || {} (line 90)
OptionsOrEmpty(o) == IF Truthy(o) THEN o ELSE EmptyOptions

\* a context without a session handler has no session cookie config
NoSessionHandler == [present |-> FALSE]

\* lines 101-111: the session cookie config of a context with sessions
SessionCookieConfig(o) ==
    [present |-> TRUE,
     httpOnly |-> Truthy(o.httpOnlyCookies),
     secure |-> Truthy(o.secureCookies),
     name |-> IF o.cookieName.t = "string" THEN o.cookieName.v ELSE "JSESSIONID",
     domain |-> o.cookieDomain,
     path |-> o.cookiePath]

\* cx.setVirtualHosts(Array.isArray(virtualHosts) ? virtualHosts
\*                                               : [String(virtualHosts)]) (lines 98-100)
VirtualHostsOf(virtualHosts) ==
    IF Truthy(virtualHosts)
    THEN IF virtualHosts.t = "array" THEN virtualHosts.v
         ELSE <<StringOf(virtualHosts)>>
    ELSE <<>>

\* lines 94-111: the ServletContextHandler constructed for a key not yet
\* registered, before it is started
NewHandler(s, path, virtualHosts, o) ==
    LET opts == OptionsOrEmpty(o)
        sessions == Truthy(opts.sessions)
    IN [server |-> s,
        path |-> path,
        sessions |-> sessions,
        security |-> Truthy(opts.security),
        virtualHosts |-> VirtualHostsOf(virtualHosts),
        cookies |-> IF sessions THEN SessionCookieConfig(opts) ELSE NoSessionHandler,
        started |-> FALSE]

\* line 114 left out: a handler is never started by getContext
StartNever(srv, h) == h

\* lines 112-115: contextMap[contextKey] = cx; if (jetty.isRunning()) cx.start()
StartIfRunning(srv, h) == IF srv.running THEN [h EXCEPT !.started = TRUE] ELSE h

\* lines 88-116 with the configuration of lines 95-111 applied to a context
\* that is already registered as well
GetContextOpReconfiguring(svs, hs, s, path, virtualHosts, o) ==
    LET key == IF Truthy(virtualHosts) THEN StringOf(virtualHosts) \o path ELSE path
        found == IF key \in DOMAIN svs[s].contextMap THEN svs[s].contextMap[key] ELSE Nil
        cx == Len(hs) + 1
        h == NewHandler(s, path, virtualHosts, o)
    IN IF found # Nil
       THEN [servers |-> svs,
             handlers |-> [hs EXCEPT ![found] = [h EXCEPT !.started = hs[found].started]],
             cx |-> found, fx |-> <<>>]
       ELSE [servers |-> [svs EXCEPT ![s].contextMap = Put(@, key, cx),
                                     ![s].contexts = Append(@, cx)],
             handlers |-> Append(hs, StartIfRunning(svs[s], h)),
             cx |-> cx,
             fx |-> <<"new ServletContextHandler">>
                    \o (IF svs[s].running THEN <<"cx.start">> ELSE <<>>)]

\* Server.getContext (lines 88-116) run from its first to its last line on
\* instance s of svs, with the handlers hs constructed so far
GetContextOp(svs, hs, s, path, virtualHosts, o) ==
    LET key == ContextKey(path, virtualHosts)
        found == Lookup(svs[s].contextMap, key)
        cx == Len(hs) + 1
    IN IF found # Nil
       THEN [servers |-> svs, handlers |-> hs, cx |-> found, fx |-> <<>>]
       ELSE [servers |-> [svs EXCEPT ![s].contextMap = Put(@, key, cx),
                                     ![s].contexts = Append(@, cx)],
             handlers |-> Append(hs, StartIfRunning(svs[s],
                                       NewHandler(s, path, virtualHosts, o))),
             cx |-> cx,
             fx |-> <<"new ServletContextHandler">>
                    \o (IF svs[s].running THEN <<"cx.start">> ELSE <<>>)]

\* handlers a getContext call constructs: one if the key is not registered
NeedsHandler(s, path, virtualHosts) ==
    Lookup(servers[s].contextMap, ContextKey(path, virtualHosts)) = Nil

(***************************************************************************)
(* Server: the constructor (lines 47-382).                                 *)
(***************************************************************************)
\* lines 350-358 with the server options handed on as they are
DefaultContextOptionsAsGiven(o) ==
    [t |-> "object",
     security |-> o.security,
     sessions |-> o.sessions,
     cookieName |-> o.cookieName,
     cookieDomain |-> o.cookieDomain,
     cookiePath |-> o.cookiePath,
     httpOnlyCookies |-> o.httpOnlyCookies,
     secureCookies |-> o.secureCookies]

\* lines 350-358: the options of the default context
DefaultContextOptions(o) ==
    [t |-> "object",
     security |-> JSBool(o.security # JSBool(FALSE)),
     sessions |-> JSBool(o.sessions # JSBool(FALSE)),
     cookieName |-> Or(o.cookieName, JSNull),
     cookieDomain |-> Or(o.cookieDomain, JSNull),
     cookiePath |-> Or(o.cookiePath, JSNull),
     httpOnlyCookies |-> JSBool(o.httpOnlyCookies = JSBool(TRUE)),
     secureCookies |-> JSBool(o.secureCookies = JSBool(TRUE))]

\* the constructor with the transport started at line 338
FreshServerRunning ==
    [running |-> TRUE, destroyed |-> FALSE, connectorsOpen |-> FALSE,
     contextMap |-> [k \in {} |-> 0], contexts |-> <<>>, defaultContext |-> 0]

\* a Server whose constructor has run up to line 348
FreshServer ==
    [running |-> FALSE, destroyed |-> FALSE, connectorsOpen |-> FALSE,
     contextMap |-> EmptyMap, contexts |-> <<>>, defaultContext |-> Nil]

\* handlers `new Server(o)` constructs: the default context, and the static
\* context when staticDir is set and its key is not the default context's
HandlersNeeded(o) ==
    IF Truthy(o.staticDir)
       /\ ContextKey(Or(o.staticMountpoint, JSStr("/static")).v, o.virtualHost)
            # ContextKey(Or(o.mountpoint, JSStr("/")).v, o.virtualHost)
    THEN 2 ELSE 1

\* new Server(o) (lines 331-380)
Construct(svs, hs, o) ==
    LET s == Len(svs) + 1
        a == GetContextOp(Append(svs, FreshServer), hs, s,
                          Or(o.mountpoint, JSStr("/")).v, o.virtualHost,
                          DefaultContextOptions(o))
        withDefault == [a.servers EXCEPT ![s].defaultContext = a.cx]
        b == IF Truthy(o.staticDir)
             THEN GetContextOp(withDefault, a.handlers, s,
                               Or(o.staticMountpoint, JSStr("/static")).v,
                               o.virtualHost, NoOptions)
             ELSE [servers |-> withDefault, handlers |-> a.handlers,
                   cx |-> Nil, fx |-> <<>>]
    IN [servers |-> [b.servers EXCEPT ![s].connectorsOpen = TRUE],
        handlers |-> b.handlers,
        fx |-> a.fx \o b.fx \o <<"connector.open">>]

(***************************************************************************)
(* Server: start, stop, destroy, isRunning (lines 294-321).                *)
(***************************************************************************)
\* the handlers of instance s's "Contexts" collection set started or stopped
SetStarted(hs, svs, s, b) ==
    [i \in 1..Len(hs) |->
        IF \E j \in 1..Len(svs[s].contexts) : svs[s].contexts[j] = i
        THEN [hs[i] EXCEPT !.started = b] ELSE hs[i]]

\* jetty.start() (line 295): the server runs, its connectors are open and
\* the handlers of its "Contexts" collection are started
JettyStart(svs, s) == [svs EXCEPT ![s].running = TRUE, ![s].connectorsOpen = TRUE]

\* jetty.stop(); contextMap = {} (lines 304-305)
JettyStopAndClear(svs, s) ==
    [svs EXCEPT ![s].running = FALSE, ![s].connectorsOpen = FALSE,
                ![s].contextMap = EmptyMap]

\* jetty.destroy() (line 312)
JettyDestroy(svs, s) == [svs EXCEPT ![s].destroyed = TRUE]

Init ==
    /\ options = JSUndef
    /\ server = Nil
    /\ started = FALSE
    /\ servers = <<>>
    /\ handlers = <<>>
    /\ pc = [t \in Threads |-> "idle"]
    /\ frame = [t \in Threads |-> NoFrame]
    /\ sockets = <<>>
    /\ op = [name |-> "none"]
    /\ fx = <<>>
    /\ err = "none"
    /\ ret = RetUndef

\* the instance the application calls Server methods on: the one the daemon
\* holds in `server` and hands to the application's hooks
Instances == IF server = Nil THEN {} ELSE {server}

\* server.getContext(path, virtualHosts, o) on instance s, called by the
\* application outside any other call
GetContext(s, path, virtualHosts, o) ==
    /\ NeedsHandler(s, path, virtualHosts) => Len(handlers) < MaxHandlers
    /\ LET r == GetContextOp(servers, handlers, s, path, virtualHosts, o)
       IN /\ servers' = r.servers
          /\ handlers' = r.handlers
          /\ fx' = r.fx
          /\ ret' = RetContext(r.cx)
    /\ op' = [name |-> "getContext", s |-> s, path |-> path,
              virtualHosts |-> virtualHosts, options |-> o]
    /\ err' = "none"
    /\ UNCHANGED <<options, server, started, mtVars, sockets>>

\* server.getDefaultContext() (lines 66-68)
GetDefaultContext(s) ==
    /\ op' = [name |-> "getDefaultContext", s |-> s]
    /\ fx' = <<>>
    /\ err' = "none"
    /\ ret' = RetContext(servers[s].defaultContext)
    /\ UNCHANGED <<options, server, started, servers, handlers, mtVars, sockets>>

\* return jetty && jetty.isRunning() (line 320); jetty is set by the
\* constructor (line 338)
IsRunningValue(svs, s) == RetBool(svs[s].running)

\* server.isRunning() (lines 319-321)
IsRunning(s) ==
    /\ op' = [name |-> "isRunning", s |-> s]
    /\ fx' = <<>>
    /\ err' = "none"
    /\ ret' = IsRunningValue(servers, s)
    /\ UNCHANGED <<options, server, started, servers, handlers, mtVars, sockets>>

\* server.start() on instance s (lines 294-298)
ServerStart(s) ==
    /\ servers' = JettyStart(servers, s)
    /\ handlers' = SetStarted(handlers, servers, s, TRUE)
    /\ op' = [name |-> "Server.start", s |-> s]
    /\ fx' = <<"jetty.start">>
    /\ err' = "none"
    /\ ret' = RetUndef
    /\ UNCHANGED <<options, server, started, mtVars, sockets>>

\* server.stop() on instance s (lines 303-306)
ServerStop(s) ==
    /\ servers' = JettyStopAndClear(servers, s)
    /\ handlers' = SetStarted(handlers, servers, s, FALSE)
    /\ op' = [name |-> "Server.stop", s |-> s]
    /\ fx' = <<"jetty.stop">>
    /\ err' = "none"
    /\ ret' = RetUndef
    /\ UNCHANGED <<options, server, started, mtVars, sockets>>

(***************************************************************************)
(* The daemon life cycle functions of the module (lines 433-550).          *)
(***************************************************************************)
\* the call of an exported life cycle hook: typeof app.x === "function"
Hook(name) == IF name \in AppHooks THEN <<"app." \o name>> ELSE <<>>

\* the outcome of a call that returns `server` and does nothing else
ReturnsServer ==
    /\ fx' = <<>>
    /\ err' = "none"
    /\ ret' = RetServer(server)
    /\ UNCHANGED <<options, server, started, servers, handlers, mtVars, sockets>>

\* if (started) return server (lines 435-437)
InitGuard == started

\* if (started) return server (lines 496-498)
StartGuard == started

\* if (!started) return server (lines 518-520)
StopGuard == ~started

\* if (server) (line 538)
DestroyGuard == server # Nil

\* lines 480-485: server = new Server(options), the init hook, return server
InitServer(o) ==
    /\ Len(servers) < MaxServers
    /\ Len(handlers) + HandlersNeeded(o) <= MaxHandlers
    /\ LET c == Construct(servers, handlers, o)
       IN /\ servers' = c.servers
          /\ handlers' = c.handlers
          /\ fx' = c.fx \o Hook("init")
    /\ options' = o
    /\ server' = Len(servers) + 1
    /\ err' = "none"
    /\ ret' = RetServer(server')
    /\ UNCHANGED <<started, mtVars, sockets>>

\* init(appPath) (lines 433-486), the command line parsed to options o
ModInit(o) ==
    /\ op' = [name |-> "init"]
    /\ IF InitGuard THEN ReturnsServer ELSE InitServer(o)

\* the calls start() issues in the current state (lines 496-504): none when
\* the guard returns or server.start() is called on undefined or null
StartCalls ==
    IF StartGuard \/ server = Nil THEN <<>> ELSE <<"jetty.start">> \o Hook("start")

\* start() (lines 495-506)
ModStart ==
    /\ op' = [name |-> "start"]
    /\ fx' = StartCalls
    /\ IF StartGuard
       THEN /\ err' = "none"
            /\ ret' = RetServer(server)
            /\ UNCHANGED <<options, server, started, servers, handlers, mtVars, sockets>>
       ELSE IF server = Nil
       THEN \* server.start() on undefined or null (line 499)
            /\ err' = "TypeError"
            /\ ret' = RetUndef
            /\ UNCHANGED <<options, server, started, servers, handlers, mtVars, sockets>>
       ELSE /\ servers' = JettyStart(servers, server)
            /\ handlers' = SetStarted(handlers, servers, server, TRUE)
            /\ started' = TRUE
            /\ err' = "none"
            /\ ret' = RetServer(server)
            /\ UNCHANGED <<options, server, mtVars, sockets>>

\* the calls stop() issues in the current state (lines 518-525): none when
\* the guard returns; the hook alone when server.stop() is called on null
StopCalls ==
    IF StopGuard THEN <<>>
    ELSE IF server = Nil THEN Hook("stop")
    ELSE Hook("stop") \o <<"jetty.stop">>

\* stop() (lines 517-528)
ModStop ==
    /\ op' = [name |-> "stop"]
    /\ fx' = StopCalls
    /\ IF StopGuard
       THEN /\ err' = "none"
            /\ ret' = RetServer(server)
            /\ UNCHANGED <<options, server, started, servers, handlers, mtVars, sockets>>
       ELSE IF server = Nil
       THEN \* app.stop(server), then server.stop() on null (lines 523-525)
            /\ err' = "TypeError"
            /\ ret' = RetUndef
            /\ UNCHANGED <<options, server, started, servers, handlers, mtVars, sockets>>
       ELSE /\ servers' = JettyStopAndClear(servers, server)
            /\ handlers' = SetStarted(handlers, servers, server, FALSE)
            /\ started' = FALSE
            /\ err' = "none"
            /\ ret' = RetServer(server)
            /\ UNCHANGED <<options, server, mtVars, sockets>>

\* what jetty.destroy() (line 312) can end with: a transport that is still
\* running may refuse to be destroyed
JettyDestroyOutcomes(svs, s) ==
    IF svs[s].running THEN {"none", "IllegalStateException"} ELSE {"none"}

\* destroy() (lines 537-550): server.destroy() stands before the try, so
\* that `server = null` is reached only when it has returned
ModDestroy ==
    /\ op' = [name |-> "destroy"]
    /\ IF DestroyGuard
       THEN /\ fx' = Hook("destroy") \o <<"jetty.destroy">>
            /\ err' \in JettyDestroyOutcomes(servers, server)
            /\ IF err' = "none"
               THEN /\ servers' = JettyDestroy(servers, server)
                    /\ server' = Nil
                    /\ ret' = RetServer(server)
               ELSE /\ ret' = RetUndef
                    /\ UNCHANGED <<servers, server>>
       ELSE /\ fx' = <<>>
            /\ err' = "none"
            /\ server' = Nil
            /\ ret' = RetServer(server)
            /\ UNCHANGED servers
    /\ UNCHANGED <<options, started, handlers, mtVars, sockets>>

Next ==
    \/ \E o \in ServerOptionValues : ModInit(o)
    \/ ModStart
    \/ ModStop
    \/ ModDestroy
    \/ \E s \in Instances, path \in Paths, virtualHosts \in VirtualHostValues,
          o \in ContextOptionValues : GetContext(s, path, virtualHosts, o)
    \/ \E s \in Instances : ServerStart(s)
    \/ \E s \in Instances : ServerStop(s)

Spec == Init /\ [][Next]_vars

(***************************************************************************)
(* Server.getContext called by several threads at once.  The function      *)
(* takes no lock (lines 88-116), so a call is a sequence of steps, one per *)
(* access to the state the threads share: the read of contextMap (line     *)
(* 92), the construction of the handler in the "Contexts" collection       *)
(* (lines 94-111), the write of contextMap (line 112) and the read of      *)
(* jetty.isRunning() (line 113).                                           *)
(***************************************************************************)
\* lines 89-93: the key is derived and contextMap is read; a call that
\* finds the key registered returns at once
ThreadLookup(t, s, path, virtualHosts, o) ==
    /\ pc[t] = "idle"
    /\ LET key == ContextKey(path, virtualHosts)
           found == Lookup(servers[s].contextMap, key)
       IN IF found # Nil
          THEN /\ op' = [name |-> "getContext", s |-> s, path |-> path,
                         virtualHosts |-> virtualHosts, options |-> o]
               /\ fx' = <<>>
               /\ err' = "none"
               /\ ret' = RetContext(found)
               /\ UNCHANGED <<pc, frame>>
          ELSE /\ pc' = [pc EXCEPT ![t] = "construct"]
               /\ frame' = [frame EXCEPT ![t] =
                              [s |-> s, path |-> path, virtualHosts |-> virtualHosts,
                               options |-> o, key |-> key, cx |-> Nil]]
               /\ UNCHANGED <<op, fx, err, ret>>
    /\ UNCHANGED <<options, server, started, servers, handlers, sockets>>

\* lines 94-111: the handler is constructed in the "Contexts" collection
ThreadConstruct(t) ==
    /\ pc[t] = "construct"
    /\ Len(handlers) < MaxHandlers
    /\ LET f == frame[t]
           cx == Len(handlers) + 1
       IN /\ handlers' = Append(handlers,
                                NewHandler(f.s, f.path, f.virtualHosts, f.options))
          /\ servers' = [servers EXCEPT ![f.s].contexts = Append(@, cx)]
          /\ frame' = [frame EXCEPT ![t].cx = cx]
    /\ pc' = [pc EXCEPT ![t] = "insert"]
    /\ UNCHANGED <<options, server, started, sockets, op, fx, err, ret>>

\* line 112: contextMap[contextKey] = cx
ThreadInsert(t) ==
    /\ pc[t] = "insert"
    /\ LET f == frame[t]
       IN servers' = [servers EXCEPT ![f.s].contextMap = Put(@, f.key, f.cx)]
    /\ pc' = [pc EXCEPT ![t] = "start"]
    /\ UNCHANGED <<options, server, started, handlers, frame, sockets,
                   op, fx, err, ret>>

\* lines 113-125: if (jetty.isRunning()) cx.start(); the call returns
ThreadStart(t) ==
    /\ pc[t] = "start"
    /\ LET f == frame[t]
       IN /\ handlers' = [handlers EXCEPT ![f.cx] = StartIfRunning(servers[f.s], @)]
          /\ op' = [name |-> "getContext", s |-> f.s, path |-> f.path,
                    virtualHosts |-> f.virtualHosts,
                    options |-> f.options]
          /\ fx' = <<"new ServletContextHandler">>
                   \o (IF servers[f.s].running THEN <<"cx.start">> ELSE <<>>)
          /\ ret' = RetContext(f.cx)
    /\ err' = "none"
    /\ pc' = [pc EXCEPT ![t] = "idle"]
    /\ frame' = [frame EXCEPT ![t] = NoFrame]
    /\ UNCHANGED <<options, server, started, servers, sockets>>

\* the virtual hosts the threads ask for: few, so that their calls meet on
\* one key
RaceVirtualHosts == {JSUndef, JSStr("host1")}

\* the daemon constructs and starts the Server while the threads of the
\* application and of the transport call getContext
NextMT ==
    \/ \E o \in ServerOptionValues : ModInit(o)
    \/ ModStart
    \/ \E t \in Threads, s \in Instances, path \in Paths,
          virtualHosts \in RaceVirtualHosts, o \in ContextOptionValues :
            ThreadLookup(t, s, path, virtualHosts, o)
    \/ \E t \in Threads : ThreadConstruct(t)
    \/ \E t \in Threads : ThreadInsert(t)
    \/ \E t \in Threads : ThreadStart(t)

SpecMT == Init /\ [][NextMT]_vars

(***************************************************************************)
(* Context.addWebSocket (lines 201-287): the WebSocket object built for    *)
(* each connection, its methods, and the callbacks of the transport.       *)
(***************************************************************************)
\* what the onconnect argument of addWebSocket is: not a function; a
\* function that registers no "open" listener; a function that registers an
\* "open" listener which sends a message
OnConnectKinds == {"none", "plain", "sender"}

\* a call forwarded to the transport connection conn
TCall(name, conn, args) == [call |-> name, conn |-> conn, args |-> args]

\* lines 204-285 with "open" emitted by doWebSocketConnect itself
NewSocketOpened(c, k) ==
    [conn |-> Nil,
     link |-> "connecting",
     openListeners |-> <<"attach">> \o (IF k = "sender" THEN <<"app">> ELSE <<>>),
     events |-> <<"open">>]

\* lines 204-285 with onconnect called before the listener of line 276 is
\* registered
NewSocketAppFirst(c, k) ==
    [conn |-> 0,
     link |-> "connecting",
     openListeners |-> (IF k = "sender" THEN <<"app">> ELSE <<>>) \o <<"attach">>,
     events |-> <<>>]

\* doWebSocketConnect (lines 204-285): the WebSocket object for connection
\* c; `var conn` is undefined, the listener of line 276 is registered
\* before onconnect runs, and no event has been emitted
NewSocket(c, k) ==
    [conn |-> Nil,
     link |-> "connecting",
     openListeners |-> <<"attach">> \o (IF k = "sender" THEN <<"app">> ELSE <<>>),
     events |-> <<>>]

\* socket.send(msg) (lines 237-241): the calls it forwards
SendCalls(sk) ==
    IF sk.conn # Nil THEN <<TCall("sendMessage", sk.conn, <<>>)>> ELSE <<>>

\* socket.sendBinary(bytearray, offset, length) (lines 252-258), for a
\* byte array of length size: the calls it forwards
SendBinaryCalls(sk, size, offset, length) ==
    IF sk.conn # Nil
    THEN LET off == Or(ParseInt(offset), JSNum(0))
             len == Or(ParseInt(length), JSNum(size))
         IN <<TCall("sendMessage", sk.conn, <<size, off.v, len.v>>)>>
    ELSE <<>>

\* lines 226-230 with the disconnect requested twice
CloseCallsTwice(sk) ==
    IF sk.conn # Nil
    THEN <<TCall("disconnect", sk.conn, <<>>), TCall("disconnect", sk.conn, <<>>)>>
    ELSE <<>>

\* socket.close() (lines 226-230): the calls it forwards
CloseCalls(sk) ==
    IF sk.conn # Nil THEN <<TCall("disconnect", sk.conn, <<>>)>> ELSE <<>>

\* socket.isOpen() (lines 266-268): conn && conn.isOpen()
IsOpenValue(sk) ==
    IF sk.conn # Nil THEN RetBool(sockets[sk.conn].link = "open") ELSE RetUndef

\* the listener of lines 276-278: conn = connection
Attach(sk, connection) == [sk EXCEPT !.conn = connection]

RECURSIVE RunOpenListeners(_, _, _)
\* the "open" listeners ls of sk run in the order of their registration,
\* with the connection as argument: the socket they leave and the calls
\* they forward
RunOpenListeners(sk, connection, ls) ==
    IF ls = <<>> THEN [socket |-> sk, fx |-> <<>>]
    ELSE LET after == IF ls[1] = "attach" THEN Attach(sk, connection) ELSE sk
             calls == IF ls[1] = "app" THEN SendCalls(sk) ELSE <<>>
             rest == RunOpenListeners(after, connection, Tail(ls))
         IN [socket |-> rest.socket, fx |-> calls \o rest.fx]

\* the event emitter mixed into the socket (line 273): the transport's
\* callback is emitted as the event of its name
Emit(sk, event) == [sk EXCEPT !.events = Append(@, event)]

\* conn.disconnect() (line 228) on the transport: an open connection starts
\* to close
Disconnect(link) == IF link = "open" THEN "closing" ELSE link

\* what a call forwarded to a connection that is no longer open can end
\* with: the transport drops it or raises
ForwardOutcomes(sk) ==
    IF sk.conn # Nil /\ sockets[sk.conn].link # "open"
    THEN {"none", "IOException"} ELSE {"none"}

Sockets == 1..Len(sockets)

\* the number of "message" events emitted on sk
Messages(sk) == Cardinality({i \in 1..Len(sk.events) : sk.events[i] = "message"})

\* lines 280-282 with onconnect called twice
OnConnectCallsTwice(k) == IF k # "none" THEN <<"onconnect", "onconnect">> ELSE <<>>

\* if (typeof onconnect === "function") onconnect(socket, request, protocol)
\* (lines 280-282)
OnConnectCalls(k) == IF k # "none" THEN <<"onconnect">> ELSE <<>>

\* the servlet's doWebSocketConnect (lines 204-285) for a new upgrade request
DoWebSocketConnect(k) ==
    /\ Len(sockets) < MaxSockets
    /\ LET c == Len(sockets) + 1
       IN /\ sockets' = Append(sockets, NewSocket(c, k))
          /\ op' = [name |-> "doWebSocketConnect", c |-> c, onconnect |-> k]
          /\ fx' = OnConnectCalls(k)
          /\ ret' = [t |-> "socket", v |-> c]
    /\ err' = "none"
    /\ UNCHANGED <<srvVars, mtVars>>

\* the transport accepts the handshake of connection c and calls onOpen
TransportOpen(c) ==
    /\ sockets[c].link = "connecting"
    /\ LET opened == [sockets[c] EXCEPT !.link = "open"]
           r == RunOpenListeners(Emit(opened, "open"), c, opened.openListeners)
       IN /\ sockets' = [sockets EXCEPT ![c] = r.socket]
          /\ fx' = r.fx
    /\ op' = [name |-> "onOpen", c |-> c]
    /\ err' = "none"
    /\ ret' = RetUndef
    /\ UNCHANGED <<srvVars, mtVars>>

\* the transport refuses the handshake of connection c: no callback
TransportRefuse(c) ==
    /\ sockets[c].link = "connecting"
    /\ sockets' = [sockets EXCEPT ![c].link = "refused"]
    /\ op' = [name |-> "refused", c |-> c]
    /\ fx' = <<>>
    /\ err' = "none"
    /\ ret' = RetUndef
    /\ UNCHANGED <<srvVars, mtVars>>

\* the transport has received a text message on connection c and calls
\* onMessage
TransportMessage(c) ==
    /\ sockets[c].link \in {"open", "closing"}
    /\ Messages(sockets[c]) < MaxMessages
    /\ sockets' = [sockets EXCEPT ![c] = Emit(@, "message")]
    /\ op' = [name |-> "onMessage", c |-> c]
    /\ fx' = <<>>
    /\ err' = "none"
    /\ ret' = RetUndef
    /\ UNCHANGED <<srvVars, mtVars>>

\* connection c is closed, by the peer or after a disconnect, and the
\* transport calls onClose
TransportClose(c) ==
    /\ sockets[c].link \in {"open", "closing"}
    /\ sockets' = [sockets EXCEPT ![c] = Emit([@ EXCEPT !.link = "closed"], "close")]
    /\ op' = [name |-> "onClose", c |-> c]
    /\ fx' = <<>>
    /\ err' = "none"
    /\ ret' = RetUndef
    /\ UNCHANGED <<srvVars, mtVars>>

\* socket.send(msg) on the WebSocket object of connection c
Send(c) ==
    /\ op' = [name |-> "send", c |-> c]
    /\ fx' = SendCalls(sockets[c])
    /\ err' \in ForwardOutcomes(sockets[c])
    /\ ret' = RetUndef
    /\ UNCHANGED <<srvVars, mtVars, sockets>>

\* socket.sendBinary(bytearray, offset, length), bytearray of length size
SendBinary(c, size, offset, length) ==
    /\ op' = [name |-> "sendBinary", c |-> c, size |-> size, offset |-> offset,
              length |-> length]
    /\ fx' = SendBinaryCalls(sockets[c], size, offset, length)
    /\ err' \in ForwardOutcomes(sockets[c])
    /\ ret' = RetUndef
    /\ UNCHANGED <<srvVars, mtVars, sockets>>

\* socket.close()
Close(c) ==
    /\ op' = [name |-> "close", c |-> c]
    /\ fx' = CloseCalls(sockets[c])
    /\ sockets' = IF sockets[c].conn # Nil
                  THEN [sockets EXCEPT ![sockets[c].conn].link = Disconnect(@)]
                  ELSE sockets
    /\ err' = "none"
    /\ ret' = RetUndef
    /\ UNCHANGED <<srvVars, mtVars>>

\* socket.isOpen()
IsOpen(c) ==
    /\ op' = [name |-> "isOpen", c |-> c]
    /\ fx' = <<>>
    /\ err' = "none"
    /\ ret' = IsOpenValue(sockets[c])
    /\ UNCHANGED <<srvVars, mtVars, sockets>>

\* the byte array lengths and the offset and length arguments sendBinary
\* is called with
ByteLengths == 0..MaxBytes

OffsetArgs == {JSUndef} \cup {JSNum(n) : n \in 0..MaxBytes}
              \cup {JSChars(<<"1">>), JSChars(<<"x">>)}

LengthArgs == {JSUndef} \cup {JSNum(n) : n \in 0..MaxBytes}
              \cup {JSChars(<<"1", "p", "x">>), JSChars(<<"a", "l", "l">>)}

NextSocket ==
    \/ \E k \in OnConnectKinds : DoWebSocketConnect(k)
    \/ \E c \in Sockets : TransportOpen(c)
    \/ \E c \in Sockets : TransportRefuse(c)
    \/ \E c \in Sockets : TransportMessage(c)
    \/ \E c \in Sockets : TransportClose(c)
    \/ \E c \in Sockets : Send(c)
    \/ \E c \in Sockets : SendBinary(c, MaxBytes, JSUndef, JSUndef)
    \/ \E c \in Sockets : Close(c)
    \/ \E c \in Sockets : IsOpen(c)

\* the WebSocket objects under the callbacks of the transport and the calls
\* of the application, sendBinary called with a byte array alone
SpecSocket == Init /\ [][NextSocket]_vars

NextBinary ==
    \/ \E k \in OnConnectKinds : DoWebSocketConnect(k)
    \/ \E c \in Sockets : TransportOpen(c)
    \/ \E c \in Sockets : TransportClose(c)
    \/ \E c \in Sockets, size \in ByteLengths, offset \in OffsetArgs,
          length \in LengthArgs : SendBinary(c, size, offset, length)

\* sendBinary called with every combination of byte array, offset and length
SpecBinary == Init /\ [][NextBinary]_vars

(***************************************************************************)
(* parseOptions (lines 385-420): the check of the port option, and init()  *)
(* called with a port on the command line.                                 *)
(***************************************************************************)
\* whether every character of cs is a digit
AllDigits(cs) == \A i \in 1..Len(cs) : IsDigit(cs[i])

\* the characters of cs after its sign, if it has one
Unsigned(cs) == IF cs # <<>> /\ cs[1] \in {"-", "+"} THEN Tail(cs) ELSE cs

\* whether cs is a decimal literal without sign: digits, with at most one
\* point among them
IsDecimalLiteral(cs) ==
    \/ (cs # <<>> /\ AllDigits(cs))
    \/ /\ Len(cs) > 1
       /\ \E k \in 1..Len(cs) :
             /\ cs[k] = "."
             /\ AllDigits(SubSeq(cs, 1, k - 1))
             /\ AllDigits(SubSeq(cs, k + 1, Len(cs)))

\* isFinite(x): whether Number(x) is a finite number.  Of the strings, the
\* decimal literals with an optional sign are told from the rest; exponents,
\* hexadecimal literals and "Infinity" are not among the inputs
IsFinite(x) ==
    CASE x.t = "number" -> TRUE
      [] x.t = "chars" -> x.v = <<>> \/ IsDecimalLiteral(Unsigned(SkipSpaces(x.v)))
      [] x.t = "NaN" -> FALSE
      [] x.t = "undefined" -> FALSE

\* lines 403-409: the options with the port checked, or the error thrown
ParsePort(port) ==
    IF Truthy(port) /\ ~IsFinite(port)
    THEN LET parsed == ParseInt(port)
         IN IF parsed = JSNaN \/ parsed.v < 1
            THEN [error |-> TRUE, port |-> port]
            ELSE [error |-> FALSE, port |-> parsed]
    ELSE [error |-> FALSE, port |-> port]

\* the values of --port on the command line: absent, or a string
PortArgs ==
    {JSUndef,
     JSChars(<<"8", "0">>), JSChars(<<"0">>), JSChars(<<"-", "5">>),
     JSChars(<<"1", ".", "5">>), JSChars(<<"a", "b">>),
     JSChars(<<"1", "2", "a">>), JSChars(<<"-", "5", "x">>)}

\* the process has ended with system.exit(1) (line 445)
Exited == err = "Invalid value for port"

\* init(appPath) (lines 433-486) with the port given on the command line
ModInitArgs(o, port) ==
    /\ ~Exited
    /\ op' = [name |-> "init", port |-> port]
    /\ IF InitGuard
       THEN ReturnsServer
       ELSE LET parsed == ParsePort(port)
            IN IF parsed.error
               THEN \* lines 443-446: log.error(...); system.exit(1)
                    /\ fx' = <<"log.error", "system.exit">>
                    /\ err' = "Invalid value for port"
                    /\ ret' = RetUndef
                    /\ UNCHANGED <<options, server, started, servers, handlers,
                                   mtVars, sockets>>
               ELSE InitServer([o EXCEPT !.port = parsed.port])

\* no function is called once the process has exited
NextPort ==
    \/ \E o \in ServerOptionValues, port \in PortArgs : ModInitArgs(o, port)
    \/ ~Exited /\ ModStart
    \/ ~Exited /\ ModStop
    \/ ~Exited /\ ModDestroy

\* the daemon started from the command line with a port option
SpecPort == Init /\ [][NextPort]_vars

(***************************************************************************)
(* Server.getContext called with paths and virtual hosts whose registry    *)
(* keys (line 91) can meet.                                                *)
(***************************************************************************)
KeyPaths == {"/a", "h/a"}

KeyVirtualHosts == {JSUndef, JSStr("h"), JSStr("a,b"), JSArr(<<"a", "b">>)}

NextKeys ==
    \/ \E o \in ServerOptionValues : ModInit(o)
    \/ \E s \in Instances, path \in KeyPaths, virtualHosts \in KeyVirtualHosts :
          GetContext(s, path, virtualHosts, NoOptions)

SpecKeys == Init /\ [][NextKeys]_vars

(***************************************************************************)
(* The daemon run without destroy(): init, start and stop in any order,    *)
(* with the application asking the Server for contexts and for its default *)
(* context in between.                                                     *)
(***************************************************************************)
\* the arguments of the constructor's getContext call for the default
\* context (line 350): options.mountpoint || "/" and options.virtualHost
DefaultPath(o) == Or(o.mountpoint, JSStr("/")).v

NextNoDestroy ==
    \/ \E o \in ServerOptionValues : ModInit(o)
    \/ ModStart
    \/ ModStop
    \/ \E s \in Instances, path \in Paths, virtualHosts \in VirtualHostValues :
          GetContext(s, path, virtualHosts, NoOptions)
    \/ \E s \in Instances : GetDefaultContext(s)

SpecNoDestroy == Init /\ [][NextNoDestroy]_vars

(***************************************************************************)
(* The claims.                                                             *)
(***************************************************************************)
\* the registry key of the getContext call recorded in o
KeyOf(o) == ContextKey(o.path, o.virtualHosts)

\* whether event e was emitted on sk
Emitted(sk, e) == \E i \in 1..Len(sk.events) : sk.events[i] = e

\* how often event e was emitted on sk
Count(sk, e) == Cardinality({i \in 1..Len(sk.events) : sk.events[i] = e})

\* C1: whatever the interleaving of the threads' getContext calls, one
\* Context is constructed per key: no two handlers of a Server's "Contexts"
\* collection were constructed for the same path and virtual hosts, and a
\* call returns the handler the registry holds for its key
C1_AtomicGetOrCreate ==
    /\ \A i, j \in 1..Len(handlers) :
          (/\ handlers[i].server = handlers[j].server
           /\ handlers[i].path = handlers[j].path
           /\ handlers[i].virtualHosts = handlers[j].virtualHosts)
          => i = j
    /\ op.name = "getContext"
       => ret.v = Lookup(servers[op.s].contextMap,
                         ContextKey(op.path, op.virtualHosts))

\* C2: send(msg) on a WebSocket whose "close" event has fired raises nothing
\* and forwards nothing to the transport connection
C2_SendAfterCloseIsNoOp ==
    (op.name = "send" /\ Emitted(sockets[op.c], "close"))
    => (fx = <<>> /\ err = "none")

\* C3: a getContext call for a key the registry holds returns the Context
\* registered for it and constructs none; two calls in a row with the same
\* key return the same Context; the Context a call returns is the one the
\* registry holds for the key afterwards
C3_IdempotentRegistration ==
    [][op'.name = "getContext"
       => LET before == Lookup(servers[op'.s].contextMap, KeyOf(op'))
          IN /\ before # Nil => (ret'.v = before /\ Len(handlers') = Len(handlers))
             /\ (op.name = "getContext" /\ op.s = op'.s /\ KeyOf(op) = KeyOf(op'))
                => (ret'.v = ret.v /\ Len(handlers') = Len(handlers))
             /\ Lookup(servers'[op'.s].contextMap, KeyOf(op')) = ret'.v]_vars

\* C3 happens: a getContext call found its key registered, by an earlier
\* getContext call, and returned that Context
C3_Witness ==
    /\ op.name = "getContext"
    /\ fx = <<>>
    /\ ret.v # servers[op.s].defaultContext
    /\ ret.v = Lookup(servers[op.s].contextMap, KeyOf(op))

\* C4: a getContext call for a key that is already registered changes no
\* Context (sessions, security, cookie policy, virtual hosts, started) and
\* no Server, and raises nothing
C4_FirstRegistrationWins ==
    [][(/\ op'.name = "getContext"
        /\ Lookup(servers[op'.s].contextMap, KeyOf(op')) # Nil)
       => (handlers' = handlers /\ servers' = servers /\ err' = "none")]_vars

\* C4 happens: a repeat call asked for sessions and security and got the
\* registered Context, which has neither
C4_Witness ==
    /\ op.name = "getContext"
    /\ fx = <<>>
    /\ Truthy(OptionsOrEmpty(op.options).sessions)
    /\ Truthy(OptionsOrEmpty(op.options).security)
    /\ ~handlers[ret.v].sessions
    /\ ~handlers[ret.v].security

C6_OpenCloseOrdering ==
    \A c \in Sockets :
        LET e == sockets[c].events
        IN /\ Count(sockets[c], "open") <= 1
           /\ Count(sockets[c], "close") <= 1
           /\ \A i \in 1..Len(e) :
                 e[i] \in {"message", "close"} => \E j \in 1..(i - 1) : e[j] = "open"

\* C6 happens: a WebSocket was opened, got a message and was closed, while
\* another one is closing after a close()
C6_Witness ==
    /\ op.name = "onClose"
    /\ sockets[op.c].events = <<"open", "message", "close">>
    /\ \E c \in Sockets : c # op.c /\ sockets[c].link = "closing"

\* C7: on a WebSocket whose "open" event has not fired, send, sendBinary and
\* close raise nothing and forward nothing, and isOpen() returns false
C7_NoOpOnAbsentTransport ==
    (/\ op.name \in {"send", "sendBinary", "close", "isOpen"}
     /\ ~Emitted(sockets[op.c], "open"))
    => /\ fx = <<>>
       /\ err = "none"
       /\ op.name = "isOpen" => ret = RetBool(FALSE)

\* C8: sendBinary on an open WebSocket forwards offset 0 when the offset is
\* omitted and, when the length is omitted or not numeric, the length of the
\* rest of the buffer, so that the range forwarded for an offset within the
\* buffer lies within it; sendBinary(bytes) forwards (bytes, 0, bytes.length)
C8_SendBinaryDefaultBounds ==
    (op.name = "sendBinary" /\ sockets[op.c].link = "open")
    => /\ Len(fx) = 1
       /\ LET size == fx[1].args[1]
              offset == fx[1].args[2]
              length == fx[1].args[3]
          IN /\ size = op.size
             /\ op.offset = JSUndef => offset = 0
             /\ (ParseInt(op.length) = JSNaN /\ offset \in 0..size)
                => length = size - offset
             /\ (ParseInt(op.length) = JSNaN /\ offset \in 0..size)
                => offset + length <= size
             /\ (op.offset = JSUndef /\ op.length = JSUndef)
                => (offset = 0 /\ length = size)

\* C9: a start() called right after a start(), and a stop() called right
\* after a stop(), calls neither the transport nor a hook of the application;
\* a Server.start() right after a Server.start(), and a Server.stop() right
\* after a Server.stop(), leaves the Server and its Contexts as they are
C9_LifecycleIdempotence ==
    /\ op.name = "start" => StartCalls = <<>>
    /\ op.name = "stop" => StopCalls = <<>>
    /\ op.name = "Server.start"
       => /\ JettyStart(servers, op.s) = servers
          /\ SetStarted(handlers, servers, op.s, TRUE) = handlers
    /\ op.name = "Server.stop"
       => /\ JettyStopAndClear(servers, op.s) = servers
          /\ SetStarted(handlers, servers, op.s, FALSE) = handlers

\* C10: stop() and destroy() raise nothing, in whatever order the life
\* cycle functions are called
C10_LifecycleMisuseIsNoError ==
    op.name \in {"stop", "destroy"} => err = "none"

\* whether the registry of its Server holds handler i under some key
Registered(i) ==
    LET m == servers[handlers[i].server].contextMap
    IN \E k \in DOMAIN m : m[k] = i

\* C11: after a Server.stop(), and after a stop() that stopped the Server,
\* the registry is empty; a handler the registry no longer holds is never
\* started again; and a getContext call for a key the registry does not hold
\* constructs a handler that is none of those constructed before
C11_StopDiscardsContexts ==
    /\ op.name = "Server.stop" => servers[op.s].contextMap = EmptyMap
    /\ (op.name = "stop" /\ err = "none" /\ fx # <<>>)
       => servers[server].contextMap = EmptyMap
    /\ \A i \in 1..Len(handlers) : handlers[i].started => Registered(i)
    /\ (op.name = "getContext" /\ fx # <<>>)
       => (ret.v = Len(handlers) /\ Registered(ret.v))

\* C12: a handler constructed by a getContext call is started by that call
\* exactly if the Server is running; a Server is set running by start() and
\* Server.start() alone, which start its handlers; and whenever a Server is
\* running every handler its registry holds is started
C12_ContextStartFollowsServer ==
    [][/\ (op'.name = "getContext" /\ fx' # <<>>)
          => handlers'[ret'.v].started = servers[op'.s].running
       /\ \A i \in 1..Len(handlers) :
             (handlers'[i].started /\ ~handlers[i].started)
             => op'.name \in {"start", "Server.start"}
       /\ \A s \in 1..Len(servers') :
             servers'[s].running
             => \A k \in DOMAIN servers'[s].contextMap :
                   handlers'[servers'[s].contextMap[k]].started]_vars

\* C12 happens: getContext constructed a handler on a running Server and
\* started it, while an older handler of the registry, constructed before the
\* Server ran, is started as well
C12_Witness ==
    /\ op.name = "getContext"
    /\ fx = <<"new ServletContextHandler", "cx.start">>
    /\ servers[op.s].running
    /\ handlers[ret.v].started
    /\ \E i \in 1..Len(handlers) : i # ret.v /\ Registered(i) /\ handlers[i].started

\* C13: close() on a WebSocket whose connection is attached forwards exactly
\* one disconnect to that connection and emits no event on any WebSocket; a
\* "close" event is emitted on a WebSocket only by the transport's onClose
\* callback for its connection
C13_CloseIsFireAndRequest ==
    [][/\ (op'.name = "close" /\ sockets[op'.c].conn # Nil)
          => /\ fx' = <<TCall("disconnect", sockets[op'.c].conn, <<>>)>>
             /\ err' = "none"
             /\ \A c \in Sockets : sockets'[c].events = sockets[c].events
       /\ \A c \in Sockets :
             Count(sockets'[c], "close") > Count(sockets[c], "close")
             => (op'.name = "onClose" /\ op'.c = c)]_vars

\* C13 happens: close() was called on an open WebSocket, the disconnect was
\* requested, the connection is closing and "close" has not been emitted
C13_Witness ==
    /\ op.name = "close"
    /\ Len(fx) = 1
    /\ sockets[op.c].link = "closing"
    /\ Emitted(sockets[op.c], "open")
    /\ ~Emitted(sockets[op.c], "close")

\* C14: doWebSocketConnect builds a new WebSocket object and leaves those of
\* the other connections as they are; it calls onconnect once if it is a
\* function; when it returns no event has been emitted on the new object and
\* no connection is attached; the transport's onOpen finds the object with
\* the listeners onconnect registered, emits "open" as its first event and
\* runs them
C14_FreshSocketAndSynchronousOnConnect ==
    [][/\ op'.name = "doWebSocketConnect"
          => /\ op'.c = Len(sockets) + 1
             /\ Len(sockets') = Len(sockets) + 1
             /\ \A c \in Sockets : sockets'[c] = sockets[c]
             /\ sockets'[op'.c].events = <<>>
             /\ sockets'[op'.c].conn = Nil
             /\ op'.onconnect # "none" => fx' = <<"onconnect">>
             /\ op'.onconnect = "none" => fx' = <<>>
             /\ op'.onconnect = "sender"
                => \E i \in 1..Len(sockets'[op'.c].openListeners) :
                      sockets'[op'.c].openListeners[i] = "app"
       /\ op'.name = "onOpen"
          => /\ op'.c \in Sockets
             /\ sockets[op'.c].events = <<>>
             /\ sockets'[op'.c].events = <<"open">>
             /\ sockets'[op'.c].openListeners = sockets[op'.c].openListeners
             /\ (\E i \in 1..Len(sockets[op'.c].openListeners) :
                    sockets[op'.c].openListeners[i] = "app")
                => fx' # <<>>]_vars

\* C14 happens: a second connection was accepted, with an onconnect that
\* registers an "open" listener, while the first one is open
C14_Witness ==
    /\ op.name = "doWebSocketConnect"
    /\ op.onconnect = "sender"
    /\ op.c = 2
    /\ sockets[1].link = "open"
    /\ sockets[2].events = <<>>

\* C15: init() calls the init hook last, with the Server it constructed,
\* which is not running; stop() calls the stop hook with the Server instance
\* and then stops that Server; destroy() calls the destroy hook and then
\* destroys the Server
C15_HookCallOrder ==
    /\ (op.name = "init" /\ fx # <<>>)
       => /\ fx[Len(fx)] = "app.init"
          /\ server # Nil
          /\ ~servers[server].running
    /\ (op.name = "stop" /\ fx # <<>>)
       => /\ fx = <<"app.stop", "jetty.stop">>
          /\ server # Nil
    /\ (op.name = "destroy" /\ fx # <<>>)
       => fx = <<"app.destroy", "jetty.destroy">>

\* whether call is among the calls cs
Calls(cs, call) == \E i \in 1..Len(cs) : cs[i] = call

\* C16: an init() that constructs a Server opens its connectors and does not
\* start the transport: afterwards the connectors are open and isRunning()
\* is false; a Server is set running by start() and Server.start() alone; no
\* call but start, stop, Server.start and Server.stop changes whether a
\* Server runs or its connectors are open; and the connectors of a running
\* Server are open
C16_TwoPhaseStartup ==
    [][/\ (op'.name = "init" /\ fx' # <<>>)
          => /\ Calls(fx', "connector.open")
             /\ ~Calls(fx', "jetty.start")
             /\ servers'[server'].connectorsOpen
             /\ IsRunningValue(servers', server') = RetBool(FALSE)
       /\ \A s \in 1..Len(servers) :
             /\ (servers'[s].running /\ ~servers[s].running)
                => (op'.name \in {"start", "Server.start"} /\ Calls(fx', "jetty.start"))
             /\ op'.name \notin {"start", "stop", "Server.start", "Server.stop"}
                => /\ servers'[s].running = servers[s].running
                   /\ servers'[s].connectorsOpen = servers[s].connectorsOpen
       /\ \A s \in 1..Len(servers') :
             servers'[s].running => servers'[s].connectorsOpen]_vars

\* C16 happens: a second Server was constructed, with open connectors and
\* not running, while the first one runs
C16_Witness ==
    /\ op.name = "init"
    /\ server = 2
    /\ servers[2].connectorsOpen
    /\ IsRunningValue(servers, 2) = RetBool(FALSE)
    /\ servers[1].running

\* C17: the default context of a Server has sessions and security unless the
\* Server's options give exactly false for them, and the static context has
\* neither; a handler getContext constructs has sessions and security if its
\* options give a truthy value for them, so none with absent options; a
\* handler has a session cookie config exactly if it has sessions, with
\* httpOnly and secure false unless the options set them
C17_SessionSecurityDefaults ==
    [][/\ (op'.name = "init" /\ fx' # <<>>)
          => LET d == handlers'[servers'[server'].defaultContext]
                 m == servers'[server'].contextMap
             IN /\ d.sessions = (options'.sessions # JSBool(FALSE))
                /\ d.security = (options'.security # JSBool(FALSE))
                /\ d.sessions => (~d.cookies.httpOnly /\ ~d.cookies.secure)
                /\ Truthy(options'.staticDir)
                   => /\ "/static" \in DOMAIN m
                      /\ ~handlers'[m["/static"]].sessions
                      /\ ~handlers'[m["/static"]].security
       /\ (op'.name = "getContext" /\ fx' # <<>>)
          => LET h == handlers'[ret'.v]
                 o == OptionsOrEmpty(op'.options)
             IN /\ h.sessions = Truthy(o.sessions)
                /\ h.security = Truthy(o.security)
                /\ op'.options = NoOptions => (~h.sessions /\ ~h.security)
                /\ h.sessions
                   => /\ o.httpOnlyCookies = JSUndef => ~h.cookies.httpOnly
                      /\ o.secureCookies = JSUndef => ~h.cookies.secure
                      /\ o.httpOnlyCookies = JSBool(TRUE) => h.cookies.httpOnly
                      /\ o.secureCookies = JSBool(TRUE) => h.cookies.secure
       /\ \A i \in 1..Len(handlers') :
             handlers'[i].cookies.present = handlers'[i].sessions]_vars

\* C17 happens: getContext without options constructed a handler without
\* sessions and security on a Server whose default context has both, with a
\* session cookie config that is neither httpOnly nor secure
C17_Witness ==
    /\ op.name = "getContext"
    /\ fx # <<>>
    /\ op.options = NoOptions
    /\ ~handlers[ret.v].sessions
    /\ ~handlers[ret.v].security
    /\ handlers[ret.v].cookies = NoSessionHandler
    /\ LET d == handlers[servers[op.s].defaultContext]
       IN /\ d.sessions
          /\ d.security
          /\ d.cookies.present
          /\ ~d.cookies.httpOnly
          /\ ~d.cookies.secure

\* whether the string cs denotes a number that is at least 1
DenotesAtLeastOne(cs) ==
    LET body == SkipSpaces(cs)
    IN /\ IsDecimalLiteral(Unsigned(body))
       /\ (body = <<>> \/ body[1] # "-")
       /\ LeadingValue(Unsigned(body), 0) >= 1

\* C18: an init() given a port that does not denote a number >= 1 ends with
\* the error "Invalid value for port", constructs no Server and opens no
\* connector; and the port an init() accepts is an integer >= 1
C18_InvalidPortIsFatal ==
    (op.name = "init" /\ "port" \in DOMAIN op /\ fx # <<>>)
    => /\ (op.port # JSUndef /\ ~DenotesAtLeastOne(op.port.v))
          => /\ err = "Invalid value for port"
             /\ ~Calls(fx, "connector.open")
             /\ ~Calls(fx, "new ServletContextHandler")
       /\ (err = "none" /\ options.port # JSUndef)
          => /\ AllDigits(Unsigned(CharsOf(options.port)))
             /\ ParseInt(options.port) # JSNaN
             /\ ParseInt(options.port).v >= 1

\* C19: on every WebSocket the listener that attaches the connection is the
\* first "open" listener; when the transport calls onOpen the connection is
\* attached, an "open" listener the application registered in onconnect has
\* its send() forwarded to that connection, and isOpen() gives true
\* afterwards
C19_OpenListenerSeesTransport ==
    [][/\ \A c \in 1..Len(sockets') : sockets'[c].openListeners[1] = "attach"
       /\ op'.name = "onOpen"
          => /\ sockets'[op'.c].conn = op'.c
             /\ sockets'[sockets'[op'.c].conn].link = "open"
             /\ (\E i \in 1..Len(sockets[op'.c].openListeners) :
                    sockets[op'.c].openListeners[i] = "app")
                => fx' = <<TCall("sendMessage", op'.c, <<>>)>>
             /\ err' = "none"]_vars

\* C19 happens: the transport called onOpen on a WebSocket with an "open"
\* listener of the application, whose send() reached the connection
C19_Witness ==
    /\ op.name = "onOpen"
    /\ fx = <<TCall("sendMessage", op.c, <<>>)>>
    /\ sockets[op.c].conn = op.c
    /\ IsOpenValue(sockets[op.c]) = RetBool(TRUE)

\* C20: of two getContext calls in a row on one Server whose paths or lists
\* of virtual hosts differ, at least one with virtual hosts, the second
\* returns a Context other than the first's
C20_KeyDerivationInjective ==
    [][(/\ op.name = "getContext"
        /\ op'.name = "getContext"
        /\ op.s = op'.s
        /\ <<op.path, VirtualHostsOf(op.virtualHosts)>>
             # <<op'.path, VirtualHostsOf(op'.virtualHosts)>>
        /\ (Truthy(op.virtualHosts) \/ Truthy(op'.virtualHosts)))
       => ret'.v # ret.v]_vars

\* C21: the Context getDefaultContext() returns is the one the registry
\* holds under the default context's key, so that a getContext call with the
\* mountpoint and the virtual host of the Server's options returns the same
\* Context and constructs none
C21_DefaultContextIsRegistered ==
    op.name = "getDefaultContext"
    => LET r == GetContextOp(servers, handlers, op.s, DefaultPath(options),
                             options.virtualHost, NoOptions)
       IN /\ ret = RetContext(r.cx)
          /\ r.handlers = handlers

\* C22: without destroy(), init() constructs at most one Server, and an
\* init() call that finds a Server constructed returns it, constructs none,
\* opens no connector and does not call the application's init hook
C22_InitConstructsOnce ==
    /\ Len(servers) <= 1
    /\ (op.name = "init" /\ (Calls(fx, "connector.open") \/ Calls(fx, "app.init")))
       => /\ Len(servers) = 1
          /\ ret = RetServer(1)

====
